---- MODULE Spec2Model ----
(***************************************************************************)
(* Model of src/lib/build.ts: buildApp (the build pipeline) and updateIpfs *)
(* (the asset publisher).  Strings are sequences of one-character strings, *)
(* so that the path and name computations of the code are computed here    *)
(* the way the code computes them.                                         *)
(***************************************************************************)
EXTENDS Naturals, Integers, Sequences, FiniteSets, TLC

(***************************************************************************)
(* String and path primitives (JavaScript String, node:path, POSIX).       *)
(***************************************************************************)
Sep == "/"

Dot == "."

Range(s) == {s[i] : i \in 1..Len(s)}

\* s.startsWith(p)
StartsWith(s, p) == Len(p) <= Len(s) /\ SubSeq(s, 1, Len(p)) = p

\* s.endsWith(p)
EndsWith(s, p) == Len(p) <= Len(s) /\ SubSeq(s, Len(s) - Len(p) + 1, Len(s)) = p

\* s.indexOf(p), 1-based; 0 when p does not occur
IndexOf(s, p) ==
  LET hits == {i \in 1..(Len(s) + 1) : i + Len(p) - 1 <= Len(s) /\ SubSeq(s, i, i + Len(p) - 1) = p}
  IN IF hits = {} THEN 0 ELSE CHOOSE i \in hits : \A j \in hits : i <= j

\* s.replace(p, r) with a string pattern: only the first occurrence is replaced
ReplaceFirst(s, p, r) ==
  LET i == IndexOf(s, p)
  IN IF i = 0 THEN s
     ELSE SubSeq(s, 1, i - 1) \o r \o SubSeq(s, i + Len(p), Len(s))

\* s.substring(0, n)
Substring0(s, n) ==
  LET m == IF n < 0 THEN 0 ELSE IF n > Len(s) THEN Len(s) ELSE n
  IN SubSeq(s, 1, m)

\* s.split(c) for a one-character separator c
RECURSIVE Split(_, _)
Split(s, c) ==
  LET i == IndexOf(s, <<c>>)
  IN IF i = 0 THEN <<s>>
     ELSE <<SubSeq(s, 1, i - 1)>> \o Split(SubSeq(s, i + 1, Len(s)), c)

\* parts.join(c)
RECURSIVE JoinWith(_, _)
JoinWith(parts, c) ==
  IF Len(parts) = 0 THEN <<>>
  ELSE IF Len(parts) = 1 THEN parts[1]
  ELSE parts[1] \o <<c>> \o JoinWith(Tail(parts), c)

\* the segments of a path that path.normalize keeps ("" and "." are dropped)
RECURSIVE KeepSegments(_)
KeepSegments(segs) ==
  IF Len(segs) = 0 THEN <<>>
  ELSE IF segs[1] = <<>> \/ segs[1] = <<Dot>> THEN KeepSegments(Tail(segs))
  ELSE <<segs[1]>> \o KeepSegments(Tail(segs))

Segments(p) == KeepSegments(Split(p, Sep))

\* path.join(a, b) for relative paths without ".." segments
PathJoin(a, b) == JoinWith(Segments(a \o <<Sep>> \o b), Sep)

\* length of the longest common prefix of two segment lists
RECURSIVE CommonPrefix(_, _)
CommonPrefix(a, b) ==
  IF Len(a) = 0 \/ Len(b) = 0 \/ a[1] # b[1] THEN 0
  ELSE 1 + CommonPrefix(Tail(a), Tail(b))

\* path.relative(from, to): both are resolved against the same working
\* directory, the common leading segments are dropped, one ".." is emitted per
\* remaining segment of from, then the remaining segments of to follow
Relative(from, to) ==
  LET f == Segments(from)
      t == Segments(to)
      n == CommonPrefix(f, t)
      ups == [i \in 1..(Len(f) - n) |-> <<Dot, Dot>>]
  IN JoinWith(ups \o SubSeq(t, n + 1, Len(t)), Sep)

\* path.basename(p)
BaseName(p) ==
  LET segs == Segments(p)
  IN IF Len(segs) = 0 THEN <<>> ELSE segs[Len(segs)]

\* path.extname(p): from the last "." of the basename to its end; "" when the
\* basename has no "." or its only "." is its first character
ExtName(p) ==
  LET b == BaseName(p)
      dots == {i \in 1..Len(b) : b[i] = Dot}
      last == CHOOSE i \in dots : \A j \in dots : j <= i
  IN IF dots = {} THEN <<>>
     ELSE IF last = 1 THEN <<>>
     ELSE IF b = <<Dot, Dot>> THEN <<>>
     ELSE SubSeq(b, last, Len(b))


(***************************************************************************)
(* String literals of build.ts.                                            *)
(***************************************************************************)
sModule == <<"m", "o", "d", "u", "l", "e">>

sWidget == <<"w", "i", "d", "g", "e", "t">>

sSrcDir == <<"s", "r", "c">>

sIpfs == <<"i", "p", "f", "s">>

sIpfsJson == <<"i", "p", "f", "s", ".", "j", "s", "o", "n">>

sAliasesJson == <<"a", "l", "i", "a", "s", "e", "s", ".", "j", "s", "o", "n">>

sConfigJson == <<"b", "o", "s", ".", "c", "o", "n", "f", "i", "g", ".", "j", "s", "o", "n">>

extJs == <<".", "j", "s">>

extJsx == <<".", "j", "s", "x">>

extTs == <<".", "t", "s">>

extTsx == <<".", "t", "s", "x">>

sufModuleJs == <<".", "m", "o", "d", "u", "l", "e", ".", "j", "s">>

\* the extensions buildApp accepts as source units
SourceExts == {extJs, extJsx, extTs, extTsx}


(***************************************************************************)
(* Bounds of the model and the inputs drawn within them.                   *)
(***************************************************************************)
\* number of buildApp calls made one after another on the same directories
MaxRuns == 2

\* number of source units (modules plus widgets) in the source tree
MaxUnits == 2

\* number of files in the asset directory
MaxAssets == 2

\* number of alias sources a configuration lists
MaxAliasSources == 2

\* the src and dest arguments of buildApp
SrcArgs == {<<"s">>}

DestArgs == {<<"d">>}

\* source files below <src>/module, by relative path
ModuleRels == {<<"x", ".", "t", "s">>, <<"a", "/", "y", ".", "j", "s">>, <<"a", "/", "b", "/", "z", ".", "t", "s", "x">>}

\* source files below <src>/widget, by relative path
WidgetRels == {<<"v", ".", "j", "s", "x">>, <<"a", "/", "w", ".", "t", "s">>, <<"a", "/", "b", "/", "u", ".", "j", "s">>}

\* a module whose name holds the text of its extension before the extension
NamingModuleRels == {<<"y", ".", "t", "s", "x", ".", "t", "s">>}

\* two widgets that differ in their extension only
NamingWidgetRels == {<<"v", ".", "j", "s">>, <<"v", ".", "j", "s", "x">>}

\* a file below <src>/module that is no source unit
NoiseRel == <<"n", ".", "m", "d">>

\* files below <src>/ipfs, by relative path; the first MaxAssets are used
AssetNames == <<<<"p">>, <<"i", "/", "q">>, <<"r">>, <<"t">>>>

AssetRels == {AssetNames[n] : n \in 1..(IF MaxAssets < Len(AssetNames) THEN MaxAssets ELSE Len(AssetNames))}

\* the sets of paths an ipfs.json found before the first build has entries for
LedgerKeySets == {{AssetNames[m] : m \in 1..n} : n \in 0..Cardinality(AssetRels)}

\* sets of file names found below <dest>/src/widget before the first build
OldOutputSets ==
  {{},
   {<<"o", ".", "j", "s", "x">>, <<"x", ".", "m", "o", "d", "u", "l", "e", ".", "j", "s">>}}

\* content identifiers uploadToIPFS (a Promise<string>) can resolve to; "" is
\* the empty identifier
CIDs == {"", "c1"}

\* content identifiers found in ipfs.json before the first build
LedgerCIDs == {"", "c0"}

\* paths a configuration can list as alias sources, relative to src
AliasSrcs == {<<"p", ".", "j", "s", "o", "n">>, <<"q", ".", "j", "s", "o", "n">>}

\* contents of alias files
EmptyMap == [x \in {} |-> ""]

AliasMaps == {[k |-> "1"], [k |-> "2", j |-> "3"]}

\* the diagnostics transpileJS returns for the content of a source file: the
\* type-annotated files of the source tree give two, one of them without a
\* source line (line 0), the others give none
DiagsOf(file) ==
  IF EndsWith(file, extTs) \/ EndsWith(file, extTsx)
  THEN <<[message |-> "m1", line |-> 7], [message |-> "m2", line |-> 0]>>
  ELSE <<>>

\* all orders in which a directory walk can report the files of a set
Perms(S) ==
  {q \in [1..Cardinality(S) -> S] : \A a, b \in 1..Cardinality(S) : a # b => q[a] # q[b]}

\* all maps from a subset of K to V
PartialMaps(K, V) == UNION {[D -> V] : D \in SUBSET K}


(***************************************************************************)
(* State.                                                                  *)
(***************************************************************************)
VARIABLES
  src, dest,             \* the arguments of buildApp
  srcFiles,              \* files of the source tree (full paths)
  configFile,            \* <src>/bos.config.json
  aliasFiles,            \* readable alias files: full path -> mapping
  ledgerFile,            \* <src>/ipfs.json
  destLedger,            \* <dest>/ipfs.json
  destFiles,             \* files present under dest (full paths)
  pc,                    \* position of the running buildApp call
  config,                \* buildApp: config
  aliases,               \* buildApp: aliases
  ipfsMap,               \* updateIpfs: ipfsMap, the ledger as loaded
  ipfsFiles,             \* updateIpfs: ipfsFiles
  ipfsUploads,           \* updateIpfs: ipfsUploads
  ipfsMapOut,            \* buildApp: ipfsMap (line 35), set when updateIpfs has returned
  modules, widgets,      \* buildApp: modules, widgets
  params,                \* buildApp: params
  original_build_files,  \* buildApp: original_build_files
  new_build_files,       \* buildApp: new_build_files
  logs,                  \* buildApp: logs
  unitStep,              \* the call the current iteration of a batch awaits next
  idx,                   \* index of the current loop iteration
  result,                \* how the buildApp promise settled
  trace,                 \* calls made to collaborators in this buildApp call
  runs,                  \* number of buildApp calls started
  published,             \* per asset path: uploadToIPFS calls that returned an identifier, over all runs
  prevIpfsReturn,        \* what updateIpfs returned in the previous buildApp call
  ledgerWriteFailed,     \* whether writing or copying ipfs.json has ever been rejected
  ledgerBefore           \* ipfs.json and its copy in dest as they were when this buildApp call began

fsVars == <<src, dest, srcFiles, configFile, aliasFiles>>

ledgerVars == <<ledgerFile, destLedger>>

ipfsVars == <<ipfsMap, ipfsFiles, ipfsUploads, ipfsMapOut>>

unitVars == <<modules, widgets, params, original_build_files, new_build_files, logs, unitStep>>

histVars == <<runs, published, prevIpfsReturn, ledgerWriteFailed, ledgerBefore>>

vars == <<fsVars, ledgerVars, destFiles, pc, config, aliases, ipfsVars, unitVars, idx, result, trace, histVars>>

\* a call to a collaborator and whether it succeeded
Ev(op, arg, ok) == [op |-> op, arg |-> arg, ok |-> ok]

\* the error a failed call rejects with
ErrorOf(op, arg) == [op |-> op, arg |-> arg]

NoError == [op |-> "none", arg |-> <<>>]

\* the TypeError of reading a property of undefined
TypeErrorOf(prop) == [op |-> "TypeError", arg |-> prop]

Pending == [status |-> "pending", error |-> NoError, logs |-> <<>>]

Rejected(e) == [status |-> "rejected", error |-> e, logs |-> <<>>]

Resolved(l) == [status |-> "resolved", error |-> NoError, logs |-> l]

UndefinedConfig == [defined |-> FALSE, hasAliases |-> FALSE, aliases |-> <<>>]

ConfigWith(has, list) == [defined |-> TRUE, hasAliases |-> has, aliases |-> list]

NoFile == [exists |-> FALSE, data |-> EmptyMap]

FileWith(data) == [exists |-> TRUE, data |-> data]

NoParams == [modules |-> <<>>, ipfsMap |-> EmptyMap, aliases |-> EmptyMap]

\* sequences over S of length at most n
SeqsUpTo(S, n) == UNION {[1..m -> S] : m \in 0..n}

SourceTree(s, mods, wids, assets) ==
  {PathJoin(PathJoin(s, sModule), m) : m \in mods \cup {NoiseRel}}
    \cup {PathJoin(PathJoin(s, sWidget), w) : w \in wids}
    \cup {PathJoin(PathJoin(s, sIpfs), a) : a \in assets}

OutputDir(d) == PathJoin(PathJoin(d, sSrcDir), sWidget)

InitRun ==
  /\ pc = "idle"
  /\ config = UndefinedConfig
  /\ aliases = EmptyMap
  /\ ipfsMap = EmptyMap
  /\ ipfsFiles = <<>>
  /\ ipfsUploads = EmptyMap
  /\ ipfsMapOut = NoFile
  /\ modules = <<>>
  /\ widgets = <<>>
  /\ params = NoParams
  /\ original_build_files = <<>>
  /\ new_build_files = <<>>
  /\ logs = <<>>
  /\ unitStep = "readFile"
  /\ idx = 0
  /\ result = Pending
  /\ trace = <<>>
  /\ runs = 0
  /\ published = [a \in AssetRels |-> 0]
  /\ prevIpfsReturn = NoFile
  /\ ledgerWriteFailed = FALSE
  /\ destLedger = NoFile

\* the asset directory and the ledger vary; nothing to transpile
InitPublish ==
  /\ src \in SrcArgs /\ dest \in DestArgs
  /\ \E n \in 1..Cardinality(AssetRels) :
       srcFiles = SourceTree(src, {}, {}, {AssetNames[m] : m \in 1..n})
  /\ configFile = FileWith(ConfigWith(TRUE, <<>>))
  /\ aliasFiles = EmptyMap
  /\ ledgerFile \in {NoFile} \cup {FileWith(m) : m \in UNION {[D -> LedgerCIDs] : D \in LedgerKeySets}}
  /\ destFiles = {}

\* the source units and the old outputs vary; the one asset is in the ledger
InitBuild ==
  /\ src \in SrcArgs /\ dest \in DestArgs
  /\ \E mods \in SUBSET ModuleRels, wids \in SUBSET WidgetRels :
       /\ Cardinality(mods) + Cardinality(wids) <= MaxUnits
       /\ srcFiles = SourceTree(src, mods, wids, {<<"p">>})
  /\ configFile = FileWith(ConfigWith(TRUE, <<>>))
  /\ aliasFiles = EmptyMap
  /\ ledgerFile = FileWith([a \in {<<"p">>} |-> "c0"])
  /\ \E old \in OldOutputSets : destFiles = {PathJoin(OutputDir(dest), o) : o \in old}

\* source units whose names meet the renaming rules; no old outputs
InitNaming ==
  /\ src \in SrcArgs /\ dest \in DestArgs
  /\ \E mods \in SUBSET NamingModuleRels, wids \in SUBSET NamingWidgetRels :
       /\ Cardinality(mods) + Cardinality(wids) <= MaxUnits
       /\ srcFiles = SourceTree(src, mods, wids, {<<"p">>})
  /\ configFile = FileWith(ConfigWith(TRUE, <<>>))
  /\ aliasFiles = EmptyMap
  /\ ledgerFile = FileWith([a \in {<<"p">>} |-> "c0"])
  /\ destFiles = {}

\* the configuration and the alias files vary
InitAlias ==
  /\ src \in SrcArgs /\ dest \in DestArgs
  /\ srcFiles = SourceTree(src, {}, {}, {})
  /\ configFile \in {NoFile, FileWith(ConfigWith(FALSE, <<>>))}
       \cup {FileWith(ConfigWith(TRUE, l)) : l \in SeqsUpTo(AliasSrcs, MaxAliasSources)}
  /\ \E listed \in PartialMaps({PathJoin(src, a) : a \in AliasSrcs}, AliasMaps),
        default \in PartialMaps({PathJoin(src, sAliasesJson)}, {[k |-> "1"]}),
        nested \in PartialMaps({PathJoin(src, PathJoin(src, sAliasesJson))}, {[k |-> "2", j |-> "3"]}) :
       aliasFiles = [x \in DOMAIN listed \cup DOMAIN default \cup DOMAIN nested |->
                       IF x \in DOMAIN listed THEN listed[x]
                       ELSE IF x \in DOMAIN default THEN default[x] ELSE nested[x]]
  /\ ledgerFile = NoFile
  /\ destFiles = {}

Init ==
  /\ InitRun
  /\ (InitPublish \/ InitBuild \/ InitNaming \/ InitAlias)
  /\ ledgerBefore = <<ledgerFile, destLedger>>


(***************************************************************************)
(* Collaborators from outside build.ts, as far as buildApp relies on them. *)
(***************************************************************************)
\* loopThroughFiles(dir, callback): the files below dir, at every depth
ListFiles(files, dir) == {f \in files : StartsWith(f, dir \o <<Sep>>)}

\* readJson(path).catch(() => ({})): the mapping in the file, {} when unreadable
ReadJsonOrEmpty(files, path) == IF path \in DOMAIN files THEN files[path] ELSE EmptyMap

(***************************************************************************)
(* buildApp, lines 18-40: configuration, aliases, call of updateIpfs.      *)
(***************************************************************************)
\* Object.assign with the precedence reversed: a key already in target keeps its value
ObjectAssignKeepFirst(target, source) ==
  [x \in DOMAIN target \cup DOMAIN source |->
     IF x \in DOMAIN target THEN target[x] ELSE source[x]]

\* Object.assign(target, source): the keys of source overwrite those of target
ObjectAssign(target, source) ==
  [x \in DOMAIN target \cup DOMAIN source |->
     IF x \in DOMAIN source THEN source[x] ELSE target[x]]

\* line 28: config?.aliases || [path.join(src, "aliases.json")]
AliasesSrcs(cfg, s) ==
  IF cfg.defined /\ cfg.hasAliases THEN cfg.aliases ELSE <<PathJoin(s, sAliasesJson)>>

\* the options read with optional chaining: nothing throws
OptionsNeverThrow(cfg) == FALSE

\* lines 36-39: config.ipfs!.uploadApi throws when config is undefined
OptionsThrow(cfg) == ~cfg.defined

Start ==
  /\ pc \in {"idle", "done", "failed"}
  /\ runs < MaxRuns
  /\ runs' = runs + 1
  /\ prevIpfsReturn' = ipfsMapOut
  /\ pc' = "readConfig"
  /\ config' = UndefinedConfig
  /\ aliases' = EmptyMap
  /\ ipfsMap' = EmptyMap
  /\ ipfsFiles' = <<>>
  /\ ipfsUploads' = EmptyMap
  /\ ipfsMapOut' = NoFile
  /\ modules' = <<>>
  /\ widgets' = <<>>
  /\ params' = NoParams
  /\ original_build_files' = <<>>
  /\ new_build_files' = <<>>
  /\ logs' = <<>>
  /\ unitStep' = "readFile"
  /\ idx' = 0
  /\ result' = Pending
  /\ trace' = <<>>
  /\ ledgerBefore' = <<ledgerFile, destLedger>>
  /\ UNCHANGED <<fsVars, ledgerVars, destFiles, published, ledgerWriteFailed>>


\* where buildApp goes once config is known: to the first alias source, or,
\* when config.aliases is an empty list, straight to updateIpfs
AfterConfig(cfg, s) == IF Len(AliasesSrcs(cfg, s)) = 0 THEN "updateIpfs" ELSE "aliases"

\* line 24: readConfig resolves
ReadConfigOk ==
  /\ pc = "readConfig"
  /\ configFile.exists
  /\ config' = configFile.data
  /\ trace' = Append(trace, Ev("readConfig", PathJoin(src, sConfigJson), TRUE))
  /\ pc' = AfterConfig(configFile.data, src)
  /\ idx' = 1
  /\ UNCHANGED <<fsVars, ledgerVars, destFiles, aliases, ipfsVars, unitVars, result, histVars>>

\* lines 24-26: readConfig rejects; the catch handler reports it and returns
\* nothing, so config is undefined and buildApp goes on
ReadConfigFail ==
  /\ pc = "readConfig"
  /\ ~configFile.exists
  /\ config' = UndefinedConfig
  /\ trace' = Append(trace, Ev("readConfig", PathJoin(src, sConfigJson), FALSE))
  /\ pc' = AfterConfig(UndefinedConfig, src)
  /\ idx' = 1
  /\ UNCHANGED <<fsVars, ledgerVars, destFiles, aliases, ipfsVars, unitVars, result, histVars>>

\* lines 30-33, one iteration: one alias source is read ({} when it cannot
\* be) and assigned onto aliases
LoadAliases ==
  /\ pc = "aliases"
  /\ LET aliasesSrcs == AliasesSrcs(config, src)
         path == PathJoin(src, aliasesSrcs[idx])
     IN /\ idx <= Len(aliasesSrcs)
        /\ aliases' = ObjectAssign(aliases, ReadJsonOrEmpty(aliasFiles, path))
        /\ trace' = Append(trace, Ev("readJson", path, path \in DOMAIN aliasFiles))
        /\ pc' = IF idx = Len(aliasesSrcs) THEN "updateIpfs" ELSE "aliases"
  /\ idx' = idx + 1
  /\ UNCHANGED <<fsVars, ledgerVars, destFiles, config, ipfsVars, unitVars, result, histVars>>

\* lines 35-40: building the options argument throws before updateIpfs is called
UpdateIpfsThrow ==
  /\ pc = "updateIpfs"
  /\ OptionsThrow(config)
  /\ result' = Rejected(TypeErrorOf(sIpfs))
  /\ pc' = "failed"
  /\ UNCHANGED <<fsVars, ledgerVars, destFiles, config, aliases, ipfsVars, unitVars, idx, trace, histVars>>

(***************************************************************************)
(* updateIpfs, lines 175-210.                                              *)
(***************************************************************************)
\* line 189: !ipfsMap[file] is false
HasEntry(map, file) == file \in DOMAIN map /\ map[file] # ""

\* lines 197-200: { ...ipfsMap } with every upload assigned on top
MergeUploads(map, uploads) ==
  [x \in DOMAIN map \cup DOMAIN uploads |-> IF x \in DOMAIN uploads THEN uploads[x] ELSE map[x]]

\* the test of line 202 left out: ipfs.json is written on every run
MustPersistAlways(uploads) == TRUE

\* line 202: Object.keys(ipfsUploads).length > 0
MustPersist(uploads) == DOMAIN uploads # {}

\* line 178: the ledger is loaded, {} when it is missing or unreadable
IpfsLoad ==
  /\ pc = "updateIpfs"
  /\ ~OptionsThrow(config)
  /\ ipfsMap' = IF ledgerFile.exists THEN ledgerFile.data ELSE EmptyMap
  /\ trace' = Append(trace, Ev("readJson", PathJoin(src, sIpfsJson), ledgerFile.exists))
  /\ pc' = "ipfsWalk"
  /\ UNCHANGED <<fsVars, ledgerVars, destFiles, config, aliases, ipfsFiles, ipfsUploads, ipfsMapOut,
                 unitVars, idx, result, histVars>>

\* lines 181-187: the asset directory is walked, every file is kept by its
\* path relative to it
IpfsWalk ==
  /\ pc = "ipfsWalk"
  /\ LET dir == PathJoin(src, sIpfs)
     IN /\ ipfsFiles' \in Perms({Relative(dir, f) : f \in ListFiles(srcFiles, dir)})
        /\ trace' = Append(trace, Ev("loopThroughFiles", dir, TRUE))
  /\ ipfsUploads' = EmptyMap
  /\ idx' = 1
  /\ pc' = "ipfsUpload"
  /\ UNCHANGED <<fsVars, ledgerVars, destFiles, config, aliases, ipfsMap, ipfsMapOut, unitVars,
                 result, histVars>>

\* lines 188-194, an iteration for a file the loaded ledger has an entry for
IpfsSkip ==
  /\ pc = "ipfsUpload"
  /\ idx <= Len(ipfsFiles)
  /\ HasEntry(ipfsMap, ipfsFiles[idx])
  /\ idx' = idx + 1
  /\ UNCHANGED <<fsVars, ledgerVars, destFiles, pc, config, aliases, ipfsMap, ipfsFiles, ipfsUploads,
                 ipfsMapOut, unitVars, result, trace, histVars>>

\* lines 188-194, an iteration that uploads: uploadToIPFS resolves to cid
IpfsUploadOk ==
  /\ pc = "ipfsUpload"
  /\ idx <= Len(ipfsFiles)
  /\ ~HasEntry(ipfsMap, ipfsFiles[idx])
  /\ \E cid \in CIDs :
       ipfsUploads' = ObjectAssign(ipfsUploads, [x \in {ipfsFiles[idx]} |-> cid])
  /\ published' = [published EXCEPT ![ipfsFiles[idx]] = @ + 1]
  /\ trace' = Append(trace, Ev("uploadToIPFS", PathJoin(PathJoin(src, sIpfs), ipfsFiles[idx]), TRUE))
  /\ idx' = idx + 1
  /\ UNCHANGED <<fsVars, ledgerVars, destFiles, pc, config, aliases, ipfsMap, ipfsFiles,
                 ipfsMapOut, unitVars, result, runs, prevIpfsReturn, ledgerWriteFailed, ledgerBefore>>

\* an upload loop that catches the rejection and goes on with the next file
UploadRejectedSkipped(e) == [pc |-> "ipfsUpload", result |-> Pending]

\* lines 191 and 35: nothing catches the rejection of uploadToIPFS, so
\* updateIpfs and buildApp are rejected with it
UploadRejected(e) == [pc |-> "failed", result |-> Rejected(e)]

\* lines 188-194, an iteration whose uploadToIPFS rejects: updateIpfs and
\* buildApp reject with that error, nothing is persisted
IpfsUploadFail ==
  /\ pc = "ipfsUpload"
  /\ idx <= Len(ipfsFiles)
  /\ ~HasEntry(ipfsMap, ipfsFiles[idx])
  /\ LET path == PathJoin(PathJoin(src, sIpfs), ipfsFiles[idx])
         thrown == UploadRejected(ErrorOf("uploadToIPFS", path))
     IN /\ trace' = Append(trace, Ev("uploadToIPFS", path, FALSE))
        /\ result' = thrown.result
        /\ pc' = thrown.pc
        /\ idx' = IF thrown.pc = "failed" THEN idx ELSE idx + 1
  /\ UNCHANGED <<fsVars, ledgerVars, destFiles, config, aliases, ipfsVars, unitVars, histVars>>

\* lines 196-209 when nothing was uploaded: no write, the merged map is returned
IpfsReturn ==
  /\ pc = "ipfsUpload"
  /\ idx > Len(ipfsFiles)
  /\ ~MustPersist(ipfsUploads)
  /\ ipfsMapOut' = FileWith(MergeUploads(ipfsMap, ipfsUploads))
  /\ pc' = "catalog"
  /\ UNCHANGED <<fsVars, ledgerVars, destFiles, config, aliases, ipfsMap, ipfsFiles, ipfsUploads,
                 unitVars, idx, result, trace, histVars>>

\* lines 196-205 when something was uploaded: ipfs.json is written
IpfsWriteJson ==
  /\ pc = "ipfsUpload"
  /\ idx > Len(ipfsFiles)
  /\ MustPersist(ipfsUploads)
  /\ ledgerFile' = FileWith(MergeUploads(ipfsMap, ipfsUploads))
  /\ trace' = Append(trace, Ev("writeJson", PathJoin(src, sIpfsJson), TRUE))
  /\ pc' = "ipfsCopy"
  /\ UNCHANGED <<fsVars, destLedger, destFiles, config, aliases, ipfsVars, unitVars, idx, result,
                 histVars>>

\* line 203 rejects: ipfs.json is not replaced
IpfsWriteFail ==
  /\ pc = "ipfsUpload"
  /\ idx > Len(ipfsFiles)
  /\ MustPersist(ipfsUploads)
  /\ trace' = Append(trace, Ev("writeJson", PathJoin(src, sIpfsJson), FALSE))
  /\ result' = Rejected(ErrorOf("writeJson", PathJoin(src, sIpfsJson)))
  /\ ledgerWriteFailed' = TRUE
  /\ pc' = "failed"
  /\ UNCHANGED <<fsVars, ledgerVars, destFiles, config, aliases, ipfsVars, unitVars, idx,
                 runs, published, prevIpfsReturn, ledgerBefore>>

\* lines 206-209: ipfs.json is copied into dest and the merged map is returned
IpfsCopy ==
  /\ pc = "ipfsCopy"
  /\ destLedger' = ledgerFile
  /\ ipfsMapOut' = FileWith(MergeUploads(ipfsMap, ipfsUploads))
  /\ trace' = Append(trace, Ev("copy", PathJoin(dest, sIpfsJson), TRUE))
  /\ pc' = "catalog"
  /\ UNCHANGED <<fsVars, ledgerFile, destFiles, config, aliases, ipfsMap, ipfsFiles, ipfsUploads,
                 unitVars, idx, result, histVars>>

\* line 206 rejects: ipfs.json was written, the copy in dest was not
IpfsCopyFail ==
  /\ pc = "ipfsCopy"
  /\ trace' = Append(trace, Ev("copy", PathJoin(dest, sIpfsJson), FALSE))
  /\ result' = Rejected(ErrorOf("copy", PathJoin(dest, sIpfsJson)))
  /\ ledgerWriteFailed' = TRUE
  /\ pc' = "failed"
  /\ UNCHANGED <<fsVars, ledgerVars, destFiles, config, aliases, ipfsVars, unitVars, idx,
                 runs, published, prevIpfsReturn, ledgerBefore>>


(***************************************************************************)
(* buildApp, lines 42-75: source units, build context, output snapshot.    *)
(***************************************************************************)
\* lines 47-50 and 55-58: the extension filter
IsSourceUnit(file) == ExtName(file) \in SourceExts

\* line 63: the module name handed to the transpiler
ModuleName(s, file) == Relative(PathJoin(s, sModule), ReplaceFirst(file, ExtName(file), <<>>))

\* line 65: config.ipfs!.gateway throws when config is undefined
ParamsThrow(cfg) == ~cfg.defined

\* lines 98-100: the output file name of a module
ModuleFileName(s, file) ==
  LET n1 == ReplaceFirst(Relative(PathJoin(s, sModule), file), <<Sep>>, <<Dot>>)
      n2 == Substring0(n1, Len(n1) - Len(ExtName(file)))
  IN n2 \o sufModuleJs

\* the widget name computed the way the module name is: one replace, no split and join
WidgetFileNameFirstSepOnly(s, file) ==
  LET n1 == ReplaceFirst(Relative(PathJoin(s, sWidget), file), <<Sep>>, <<Dot>>)
      n2 == Substring0(n1, Len(n1) - Len(ExtName(file)))
  IN n2 \o extJsx

\* lines 137-139: the output file name of a widget
WidgetFileName(s, file) ==
  LET n1 == ReplaceFirst(Relative(PathJoin(s, sWidget), file), <<Sep>>, <<Dot>>)
      n2 == JoinWith(Split(Substring0(n1, Len(n1) - Len(ExtName(file))), Sep), Dot)
  IN n2 \o extJsx

\* lines 102 and 141: path.join(dest, "src", "widget", new_file_name)
OutputPath(d, name) == PathJoin(OutputDir(d), name)

\* the tagging with the file taken relative to the unit's own root directory
TagLogsUnitRelative(diags, s, file) ==
  [n \in 1..Len(diags) |->
     [message |-> diags[n].message, line |-> diags[n].line,
      file |-> Relative(PathJoin(s, Segments(Relative(s, file))[1]), file)]]

\* lines 86-94 and 123-131: every diagnostic gets the unit's path relative to src
TagLogs(diags, s, file) ==
  [n \in 1..Len(diags) |->
     [message |-> diags[n].message, line |-> diags[n].line, file |-> Relative(s, file)]]

\* a catch that reports the error and does not rethrow it
CatchModulesSwallow(e) == [pc |-> "widgets", result |-> Pending]

\* lines 109-112: the catch of the module batch reports and rethrows
CatchModules(e) == [pc |-> "failed", result |-> Rejected(e)]

\* a catch of the widget batch that reports the error and does not rethrow it
CatchWidgetsSwallow(e) == [pc |-> "reconcile", result |-> Pending]

\* lines 148-151: the catch of the widget batch reports and rethrows
CatchWidgets(e) == [pc |-> "failed", result |-> Rejected(e)]

\* the test of line 154 inverted
IsStaleInverted(file, built) == file \in Range(built)

\* line 154: a file of the snapshot that this build did not write
IsStale(file, built) == file \notin Range(built)

\* lines 42-51: the module directory is walked
WalkModules ==
  /\ pc = "catalog"
  /\ modules' \in Perms({f \in ListFiles(srcFiles, PathJoin(src, sModule)) : IsSourceUnit(f)})
  /\ trace' = Append(trace, Ev("loopThroughFiles", PathJoin(src, sModule), TRUE))
  /\ pc' = "walkWidgets"
  /\ UNCHANGED <<fsVars, ledgerVars, destFiles, config, aliases, ipfsVars, widgets, params,
                 original_build_files, new_build_files, logs, unitStep, idx, result, histVars>>

\* lines 53-67: the widget directory is walked, then params is assembled
WalkWidgets ==
  /\ pc = "walkWidgets"
  /\ widgets' \in Perms({f \in ListFiles(srcFiles, PathJoin(src, sWidget)) : IsSourceUnit(f)})
  /\ trace' = Append(trace, Ev("loopThroughFiles", PathJoin(src, sWidget), TRUE))
  /\ IF ParamsThrow(config)
     THEN /\ result' = Rejected(TypeErrorOf(sIpfs))
          /\ pc' = "failed"
          /\ UNCHANGED params
     ELSE /\ params' = [modules |-> [n \in 1..Len(modules) |-> ModuleName(src, modules[n])],
                        ipfsMap |-> ipfsMapOut.data,
                        aliases |-> aliases]
          /\ pc' = "snapshot"
          /\ UNCHANGED result
  /\ UNCHANGED <<fsVars, ledgerVars, destFiles, config, aliases, ipfsVars, modules,
                 original_build_files, new_build_files, logs, unitStep, idx, histVars>>

\* lines 69-75: the output directory is walked before anything is written
Snapshot ==
  /\ pc = "snapshot"
  /\ original_build_files' \in Perms(ListFiles(destFiles, OutputDir(dest)))
  /\ new_build_files' = <<>>
  /\ trace' = Append(trace, Ev("loopThroughFiles", OutputDir(dest), TRUE))
  /\ idx' = 1
  /\ pc' = "modules"
  /\ UNCHANGED <<fsVars, ledgerVars, destFiles, config, aliases, ipfsVars,
                 modules, widgets, params, logs, unitStep, result, histVars>>

(***************************************************************************)
(* buildApp, lines 77-151: the module batch and the widget batch.          *)
(***************************************************************************)
\* lines 81 and 118: readFile resolves
UnitRead(file) ==
  /\ unitStep = "readFile"
  /\ trace' = Append(trace, Ev("readFile", file, TRUE))
  /\ unitStep' = "transpileJS"
  /\ UNCHANGED <<destFiles, logs, new_build_files, idx>>

\* lines 82-103 and 119-142: transpileJS resolves, its logs are tagged and
\* pushed, the output path is computed and pushed
UnitTranspile(file, path, diags) ==
  /\ unitStep = "transpileJS"
  /\ trace' = Append(trace, Ev("transpileJS", file, TRUE))
  /\ logs' = logs \o TagLogs(diags, src, file)
  /\ new_build_files' = Append(new_build_files, path)
  /\ unitStep' = "outputFile"
  /\ UNCHANGED <<destFiles, idx>>

\* lines 105 and 144: outputFile resolves and the loop goes to the next file
UnitWrite(path) ==
  /\ unitStep = "outputFile"
  /\ trace' = Append(trace, Ev("outputFile", path, TRUE))
  /\ destFiles' = destFiles \cup {path}
  /\ idx' = idx + 1
  /\ unitStep' = "readFile"
  /\ UNCHANGED <<logs, new_build_files>>

\* one awaited call of an iteration resolves
UnitOk(file, path, diags) ==
  /\ UnitRead(file) \/ UnitTranspile(file, path, diags) \/ UnitWrite(path)
  /\ UNCHANGED <<fsVars, ledgerVars, pc, config, aliases, ipfsVars, modules, widgets, params,
                 original_build_files, result, histVars>>

\* the call that rejected in a failing iteration
FailedCall(file, path, stage) == ErrorOf(stage, IF stage = "outputFile" THEN path ELSE file)

\* the call the iteration awaits rejects; caught is what the batch's catch
\* handler makes of the error
UnitFail(file, path, caught, nextIdx) ==
  /\ trace' = Append(trace, Ev(unitStep, FailedCall(file, path, unitStep).arg, FALSE))
  /\ pc' = caught.pc
  /\ result' = caught.result
  /\ idx' = IF caught.pc = "failed" THEN idx ELSE nextIdx
  /\ unitStep' = "readFile"
  /\ UNCHANGED <<fsVars, ledgerVars, destFiles, config, aliases, ipfsVars, modules, widgets,
                 params, original_build_files, new_build_files, logs, histVars>>

\* lines 80-106, one awaited call of an iteration
ModuleOk ==
  /\ pc = "modules"
  /\ idx <= Len(modules)
  /\ UnitOk(modules[idx], OutputPath(dest, ModuleFileName(src, modules[idx])), DiagsOf(modules[idx]))

\* lines 80-112 when the awaited call rejects
ModuleFail ==
  /\ pc = "modules"
  /\ idx <= Len(modules)
  /\ LET file == modules[idx]
         path == OutputPath(dest, ModuleFileName(src, file))
     IN UnitFail(file, path, CatchModules(FailedCall(file, path, unitStep)), 1)

\* line 108
ModulesFinish ==
  /\ pc = "modules"
  /\ idx > Len(modules)
  /\ pc' = "widgets"
  /\ idx' = 1
  /\ UNCHANGED <<fsVars, ledgerVars, destFiles, config, aliases, ipfsVars, unitVars, result,
                 trace, histVars>>

\* lines 117-145, one awaited call of an iteration
WidgetOk ==
  /\ pc = "widgets"
  /\ idx <= Len(widgets)
  /\ UnitOk(widgets[idx], OutputPath(dest, WidgetFileName(src, widgets[idx])), DiagsOf(widgets[idx]))

\* lines 117-151 when the awaited call rejects
WidgetFail ==
  /\ pc = "widgets"
  /\ idx <= Len(widgets)
  /\ LET file == widgets[idx]
         path == OutputPath(dest, WidgetFileName(src, file))
     IN UnitFail(file, path, CatchWidgets(FailedCall(file, path, unitStep)), 1)

\* line 147
WidgetsFinish ==
  /\ pc = "widgets"
  /\ idx > Len(widgets)
  /\ pc' = "reconcile"
  /\ idx' = 1
  /\ UNCHANGED <<fsVars, ledgerVars, destFiles, config, aliases, ipfsVars, unitVars, result,
                 trace, histVars>>

(***************************************************************************)
(* buildApp, lines 153-173: stale outputs, data.json, the result.          *)
(***************************************************************************)
\* lines 153-158, an iteration for a file this build wrote
ReconcileKeep ==
  /\ pc = "reconcile"
  /\ idx <= Len(original_build_files)
  /\ ~IsStale(original_build_files[idx], new_build_files)
  /\ idx' = idx + 1
  /\ UNCHANGED <<fsVars, ledgerVars, destFiles, pc, config, aliases, ipfsVars, unitVars, result,
                 trace, histVars>>

\* lines 153-158, an iteration that removes a stale file
ReconcileRemove ==
  /\ pc = "reconcile"
  /\ idx <= Len(original_build_files)
  /\ IsStale(original_build_files[idx], new_build_files)
  /\ destFiles' = destFiles \ {original_build_files[idx]}
  /\ trace' = Append(trace, Ev("remove", original_build_files[idx], TRUE))
  /\ idx' = idx + 1
  /\ UNCHANGED <<fsVars, ledgerVars, pc, config, aliases, ipfsVars, unitVars, result, histVars>>

\* lines 153-158, an iteration whose remove rejects
ReconcileFail ==
  /\ pc = "reconcile"
  /\ idx <= Len(original_build_files)
  /\ IsStale(original_build_files[idx], new_build_files)
  /\ trace' = Append(trace, Ev("remove", original_build_files[idx], FALSE))
  /\ result' = Rejected(ErrorOf("remove", original_build_files[idx]))
  /\ pc' = "failed"
  /\ UNCHANGED <<fsVars, ledgerVars, destFiles, config, aliases, ipfsVars, unitVars, idx, histVars>>

\* lines 160-173: generateData resolves and buildApp returns the logs
GenerateDataOk ==
  /\ pc = "reconcile"
  /\ idx > Len(original_build_files)
  /\ trace' = Append(trace, Ev("generateData", dest, TRUE))
  /\ result' = Resolved(logs)
  /\ pc' = "done"
  /\ UNCHANGED <<fsVars, ledgerVars, destFiles, config, aliases, ipfsVars, unitVars, idx, histVars>>

\* lines 160-166: generateData rejects
GenerateDataFail ==
  /\ pc = "reconcile"
  /\ idx > Len(original_build_files)
  /\ trace' = Append(trace, Ev("generateData", dest, FALSE))
  /\ result' = Rejected(ErrorOf("generateData", dest))
  /\ pc' = "failed"
  /\ UNCHANGED <<fsVars, ledgerVars, destFiles, config, aliases, ipfsVars, unitVars, idx, histVars>>

Next ==
  \/ Start
  \/ ReadConfigOk
  \/ ReadConfigFail
  \/ LoadAliases
  \/ UpdateIpfsThrow
  \/ IpfsLoad
  \/ IpfsWalk
  \/ IpfsSkip
  \/ IpfsUploadOk
  \/ IpfsUploadFail
  \/ IpfsReturn
  \/ IpfsWriteJson
  \/ IpfsWriteFail
  \/ IpfsCopy
  \/ IpfsCopyFail
  \/ WalkModules
  \/ WalkWidgets
  \/ Snapshot
  \/ ModuleOk
  \/ ModuleFail
  \/ ModulesFinish
  \/ WidgetOk
  \/ WidgetFail
  \/ WidgetsFinish
  \/ ReconcileKeep
  \/ ReconcileRemove
  \/ ReconcileFail
  \/ GenerateDataOk
  \/ GenerateDataFail

Spec == Init /\ [][Next]_vars


(***************************************************************************)
(* Properties.                                                             *)
(***************************************************************************)
\* positions of the trace holding a call of one of the operations ops
Calls(ops) == {n \in 1..Len(trace) : trace[n].op \in ops}

\* positions of the trace holding a call that rejected
FailedCalls(ops) == {n \in Calls(ops) : ~trace[n].ok}

\* the full path of an asset
AssetPath(a) == PathJoin(PathJoin(src, sIpfs), a)

\* the paths buildApp derives from its arguments alone, for every src and dest
LedgerPathOf == [s \in SrcArgs |-> PathJoin(s, sIpfsJson)]

ModuleDirOf == [s \in SrcArgs |-> PathJoin(s, sModule)]

WidgetDirOf == [s \in SrcArgs |-> PathJoin(s, sWidget)]

OutputDirOf == [d \in DestArgs |-> OutputDir(d)]

IpfsDirOf == [s \in SrcArgs |-> PathJoin(s, sIpfs)]

\* C1: over all the buildApp runs sharing one ipfs.json, runs in which an
\* upload fails partway included, no asset path is published more than once.
\* (published counts only the uploadToIPFS calls that returned an identifier,
\* and runs in which writing ipfs.json itself was rejected are left aside, so
\* neither a retry after a rejected upload of the same path nor a ledger that
\* could not be stored is held against the code.)
C1_PublishedAtMostOnce == ~ledgerWriteFailed => \A a \in AssetRels : published[a] <= 1

\* C2: when updateIpfs returned in the previous run, this run (same asset
\* directory) makes no upload call and returns an equal map, whatever
\* identifiers uploadToIPFS returned.
C2_SecondRunPublishesNothing ==
  prevIpfsReturn.exists =>
    /\ Calls({"uploadToIPFS"}) = {}
    /\ ipfsMapOut.exists => ipfsMapOut.data = prevIpfsReturn.data

\* C3: every key of the ledger as loaded keeps its value, the empty
\* identifier included, in the map updateIpfs returns and in the ipfs.json it
\* leaves behind.
C3_LoadedEntriesKept ==
  \A a \in DOMAIN ipfsMap :
    /\ ipfsMapOut.exists => (a \in DOMAIN ipfsMapOut.data /\ ipfsMapOut.data[a] = ipfsMap[a])
    /\ ledgerFile.exists => (a \in DOMAIN ledgerFile.data /\ ledgerFile.data[a] = ipfsMap[a])


\* the output files written so far in this run
Written == {trace[n].arg : n \in {m \in Calls({"outputFile"}) : trace[m].ok}}

\* the output files removed so far in this run
Removed == {trace[n].arg : n \in {m \in Calls({"remove"}) : trace[m].ok}}

\* the files now below the output directory
OutputFiles == ListFiles(destFiles, OutputDirOf[dest])

\* C4: after a buildApp call that resolved, the files below dest/src/widget
\* are exactly the output files this call wrote: a snapshot file that was not
\* written again is gone, one that was written again is there, and every file
\* written is there.
C4_OutputDirIsExactlyTheBuild ==
  pc = "done" =>
    /\ OutputFiles = Written
    /\ \A f \in Range(original_build_files) : f \notin Written => f \notin destFiles
    /\ \A f \in Range(original_build_files) : f \in Written => f \in destFiles
    /\ \A f \in Written : f \in destFiles

\* a resolved build that removed a stale file, kept a rewritten one and added a new one
C4_Witness ==
  /\ pc = "done"
  /\ Removed # {}
  /\ Range(original_build_files) \cap Written # {}
  /\ Written \ Range(original_build_files) # {}

\* the calls a batch makes for one unit
UnitOps == {"readFile", "transpileJS", "outputFile"}

\* C5: when a call made for a unit of the module batch or of the widget batch
\* is rejected, no later call is made for any unit, buildApp is rejected with
\* exactly that error, and the output files written before it are still there.
C5_BatchFailsFast ==
  \A n \in FailedCalls(UnitOps) :
    /\ \A m \in Calls(UnitOps) : m <= n
    /\ pc = "failed"
    /\ result = Rejected(ErrorOf(trace[n].op, trace[n].arg))
    /\ \A m \in 1..n : (trace[m].op = "outputFile" /\ trace[m].ok) => trace[m].arg \in destFiles

\* the second module of the batch failed to transpile after the first was written
C5_Witness ==
  /\ pc = "failed"
  /\ Len(modules) >= 2
  /\ \E n \in FailedCalls({"transpileJS"}) :
       /\ trace[n].arg = modules[2]
       /\ \E m \in 1..n : trace[m].op = "outputFile" /\ trace[m].ok /\ trace[m].arg \in destFiles

\* C6: when readConfig is rejected, buildApp does not resolve, and in that
\* call nothing is uploaded, ipfs.json is neither written nor copied, nothing
\* is transpiled, no output file is written and none is removed.
C6_ConfigFailureShortCircuits ==
  FailedCalls({"readConfig"}) # {} =>
    /\ pc \in {"aliases", "updateIpfs", "failed"}
    /\ result.status # "resolved"
    /\ pc = "failed" => result.status = "rejected"
    /\ Calls({"uploadToIPFS", "writeJson", "copy", "transpileJS", "outputFile", "remove"}) = {}

\* a build that was rejected after its configuration could not be read
C6_Witness ==
  /\ FailedCalls({"readConfig"}) # {}
  /\ pc = "failed"
  /\ result.status = "rejected"


\* the path of file below the directory root, cut out of the full path
RelUnder(root, file) == SubSeq(file, Len(root) + 2, Len(file))

\* a relative path without its extension, every separator turned into ".",
\* followed by suffix
FlatName(rel, suffix) ==
  LET stem == SubSeq(rel, 1, Len(rel) - Len(ExtName(rel)))
  IN [n \in 1..Len(stem) |-> IF stem[n] = Sep THEN Dot ELSE stem[n]] \o suffix

\* the number of separators of a path
Depth(rel) == Cardinality({n \in 1..Len(rel) : rel[n] = Sep})

\* C7: the output path of every module, at every depth below the module
\* root, is the output directory followed by one file name: the relative path
\* with every separator replaced by ".", the extension removed and
\* ".module.js" appended.
C7_ModuleOutputName ==
  \A n \in 1..Len(new_build_files) :
    n <= Len(modules) =>
      LET name == FlatName(RelUnder(PathJoin(src, sModule), modules[n]), sufModuleJs)
      IN /\ Sep \notin Range(name)
         /\ new_build_files[n] = OutputDir(dest) \o <<Sep>> \o name

\* C8: the output path of every widget, at every depth below the widget
\* root, is the output directory followed by one file name: the relative path
\* with every separator replaced by ".", the extension removed and ".jsx"
\* appended.
C8_WidgetOutputName ==
  LET widgetDir == WidgetDirOf[src]
      outDir == OutputDirOf[dest]
  IN \A n \in (Len(modules) + 1)..Len(new_build_files) :
       LET name == FlatName(RelUnder(widgetDir, widgets[n - Len(modules)]), extJsx)
       IN /\ Sep \notin Range(name)
          /\ new_build_files[n] = outDir \o <<Sep>> \o name

\* a widget two directories below the widget root has been written
C8_Witness ==
  \E n \in 1..Len(new_build_files) :
    /\ n > Len(modules)
    /\ Depth(RelUnder(PathJoin(src, sWidget), widgets[n - Len(modules)])) = 2
    /\ new_build_files[n] \in Written
    /\ new_build_files[n] \in destFiles

\* the alias sources this run tried to load, in order
AliasReads ==
  LET ledger == LedgerPathOf[src]
  IN SelectSeq(trace, LAMBDA e : e.op = "readJson" /\ e.arg # ledger)

\* what an alias source contributes: its mapping, nothing when it cannot be loaded
Contribution(e) == IF e.ok THEN aliasFiles[e.arg] ELSE EmptyMap

AliasKeys == UNION {DOMAIN m : m \in AliasMaps}

\* C9: once the aliases are loaded, every key has the value of the last
\* source that defines it and no other key is present; a source that cannot
\* be loaded contributes nothing and never rejects the build; the table
\* handed to the transpiler is that table.
C9_AliasesLastSourceWins ==
  pc \notin {"idle", "readConfig", "aliases"} =>
    /\ DOMAIN aliases \subseteq AliasKeys
    /\ LET reads == AliasReads
       IN \A key \in AliasKeys :
            LET defs == {n \in 1..Len(reads) : key \in DOMAIN Contribution(reads[n])}
                last == CHOOSE n \in defs : \A m \in defs : m <= n
            IN IF defs = {} THEN key \notin DOMAIN aliases
               ELSE key \in DOMAIN aliases /\ aliases[key] = Contribution(reads[last])[key]
    /\ result.status = "rejected" => result.error.op # "readJson"
    /\ params # NoParams => params.aliases = aliases

\* two sources were loaded that define the same key differently, and the
\* build went on with the value of the later one
C9_Witness ==
  /\ pc = "ipfsUpload"
  /\ Len(AliasReads) = 2
  /\ AliasReads[1].ok /\ AliasReads[2].ok
  /\ Contribution(AliasReads[1]).k # Contribution(AliasReads[2]).k
  /\ aliases.k = Contribution(AliasReads[2]).k

\* the operations whose failure buildApp does not absorb
FatalOps ==
  {"readConfig", "uploadToIPFS", "writeJson", "copy", "loopThroughFiles", "readFile",
   "transpileJS", "outputFile", "remove", "generateData"}

\* C10: when buildApp is rejected, the error is the one of the first call
\* that failed (other than reading an alias source or the ledger), unchanged;
\* in particular the readConfig error when readConfig failed.
C10_FailureReachesCallerUnmodified ==
  result.status = "rejected" =>
    /\ FailedCalls(FatalOps) # {}
    /\ LET first == CHOOSE n \in FailedCalls(FatalOps) : \A m \in FailedCalls(FatalOps) : n <= m
       IN result.error = ErrorOf(trace[first].op, trace[first].arg)


\* the asset paths uploaded in this run (calls that returned an identifier)
Uploaded == {trace[n].arg : n \in {m \in Calls({"uploadToIPFS"}) : trace[m].ok}}

\* the calls that wrote ipfs.json or its copy in dest, in this run
LedgerWrites == {n \in Calls({"writeJson", "copy"}) : trace[n].ok}

\* C11: when updateIpfs has returned, ipfs.json was written and copied into
\* dest if and only if at least one path was uploaded in this run; when
\* nothing was uploaded both files are as they were before the run, a
\* missing one still missing.
C11_LedgerWrittenIffPublished ==
  ipfsMapOut.exists =>
    /\ Uploaded # {} <=>
         (\E n \in LedgerWrites : trace[n].op = "writeJson") /\ (\E n \in LedgerWrites : trace[n].op = "copy")
    /\ Uploaded = {} => (LedgerWrites = {} /\ <<ledgerFile, destLedger>> = ledgerBefore)
    /\ Uploaded # {} => (ledgerFile = FileWith(ipfsMapOut.data) /\ destLedger = ledgerFile)

\* a run over a non-empty asset directory that uploaded nothing and left a
\* missing copy in dest missing
C11_Witness ==
  /\ ipfsMapOut.exists
  /\ Len(ipfsFiles) > 0
  /\ Uploaded = {}
  /\ ~destLedger.exists

\* the position of the walk of the output directory in the trace, 0 before it
SnapshotAt ==
  LET outDir == OutputDirOf[dest]
      at == {n \in Calls({"loopThroughFiles"}) : trace[n].arg = outDir}
  IN IF at = {} THEN 0 ELSE CHOOSE n \in at : TRUE

\* C12: no output file is written before the walk of the output directory
\* is over, the snapshot holds exactly the files that were there before the
\* first write, and no file written in this run is removed in this run.
C12_SnapshotBeforeWrites ==
  Calls({"loopThroughFiles", "outputFile", "remove"}) # {} =>
    LET at == SnapshotAt
        written == Written
        removed == Removed
    IN /\ \A n \in Calls({"outputFile", "remove"}) : at # 0 /\ at < n
       /\ at # 0 => OutputFiles = (Range(original_build_files) \cup written) \ removed
       /\ removed \cap written = {}
       /\ removed \cap Range(new_build_files) = {}

\* a build that rewrote a file of its snapshot and, later, removed another one
C12_Witness ==
  /\ Removed # {}
  /\ Written \cap Range(original_build_files) # {}


\* the stage of buildApp a call of the trace belongs to, given the path of
\* ipfs.json, the output directory, the module directory and the asset
\* directory
StageOf(e, ledger, outDir, moduleDir, ipfsDir) ==
  IF e.op = "readConfig" THEN 1
  ELSE IF e.op = "readJson" THEN (IF e.arg = ledger THEN 3 ELSE 2)
  ELSE IF e.op \in {"uploadToIPFS", "writeJson", "copy"} THEN 3
  ELSE IF e.op = "loopThroughFiles"
    THEN (IF e.arg = outDir THEN 6 ELSE IF e.arg = ipfsDir THEN 3 ELSE 4)
  ELSE IF e.op \in {"readFile", "transpileJS"} THEN (IF StartsWith(e.arg, moduleDir) THEN 7 ELSE 8)
  ELSE IF e.op = "outputFile" THEN (IF EndsWith(e.arg, sufModuleJs) THEN 7 ELSE 8)
  ELSE IF e.op = "remove" THEN 9
  ELSE 10

\* the source units with a transpileJS call that returned before position n
TranspiledBefore(n) ==
  {trace[m].arg : m \in {k \in Calls({"transpileJS"}) : k < n /\ trace[k].ok}}

\* the number of outputFile calls that returned before position n
WritesBefore(n) == Cardinality({k \in Calls({"outputFile"}) : k < n /\ trace[k].ok})

\* C13: the calls of one run are made stage by stage: configuration, alias
\* sources, asset publishing, enumeration of the units, snapshot, modules,
\* widgets, removals, metadata; the context exists before the snapshot; no
\* widget is read before every module is written, nothing is removed before
\* every widget is written, and buildApp returns its logs after the metadata.
C13_StagesInOrder ==
  LET ledger == LedgerPathOf[src]
      outDir == OutputDirOf[dest]
      moduleDir == ModuleDirOf[src] \o <<Sep>>
      ipfsDir == IpfsDirOf[src]
      reached == IF trace = <<>> THEN 0 ELSE StageOf(trace[Len(trace)], ledger, outDir, moduleDir, ipfsDir)
  IN /\ \A n \in 2..Len(trace) :
          LET before == StageOf(trace[n - 1], ledger, outDir, moduleDir, ipfsDir)
              here == StageOf(trace[n], ledger, outDir, moduleDir, ipfsDir)
          IN /\ before <= here
             /\ (here >= 8 /\ before < 8) =>
                  /\ Range(modules) \subseteq TranspiledBefore(n)
                  /\ WritesBefore(n) = Len(modules)
             /\ (here >= 9 /\ before < 9) =>
                  /\ Range(widgets) \subseteq TranspiledBefore(n)
                  /\ WritesBefore(n) = Len(modules) + Len(widgets)
     /\ reached >= 4 => ipfsMapOut.exists
     /\ reached >= 6 => /\ params.ipfsMap = ipfsMapOut.data
                        /\ params.aliases = aliases
                        /\ Len(params.modules) = Len(modules)
     /\ pc = "done" =>
          /\ trace[Len(trace)] = Ev("generateData", dest, TRUE)
          /\ result = Resolved(logs)

\* a resolved build with a module, a widget and a removal
C13_Witness ==
  /\ pc = "done"
  /\ modules # <<>>
  /\ widgets # <<>>
  /\ Calls({"remove"}) # {}
  /\ Calls({"readConfig", "readJson"}) # {}


\* C14: a build in which two units were given the same output path does not
\* resolve: in a resolved build no output path was written twice.
C14_SameOutputIsAnError ==
  pc = "done" =>
    \A m, n \in Calls({"outputFile"}) : m # n => trace[m].arg # trace[n].arg

\* a path without its trailing extension
WithoutExt(rel) == SubSeq(rel, 1, Len(rel) - Len(ExtName(rel)))

\* C17: the name of a module handed to the transpiler is its path relative
\* to src/module with nothing but the trailing extension taken off, also
\* when the text of the extension occurs earlier in the path.
C17_ModuleNameDropsTrailingExt ==
  (\E m \in Calls({"loopThroughFiles"}) : trace[m].arg = WidgetDirOf[src]) =>
    /\ Len(params.modules) = Len(modules)
    /\ \A n \in 1..Len(modules) :
         params.modules[n] = WithoutExt(RelUnder(PathJoin(src, sModule), modules[n]))


\* C15: when updateIpfs has returned, uploadToIPFS was called for exactly
\* the enumerated paths that are no key of the loaded ipfs.json, and the map
\* returned is the loaded one, every entry kept, with one more entry for each
\* of these paths.
C15_PublishesExactlyTheUnrecorded ==
  ipfsMapOut.exists =>
    LET unrecorded == Range(ipfsFiles) \ DOMAIN ipfsMap
    IN /\ {trace[n].arg : n \in Calls({"uploadToIPFS"})} = {AssetPath(a) : a \in unrecorded}
       /\ DOMAIN ipfsMapOut.data = DOMAIN ipfsMap \cup unrecorded
       /\ \A k \in DOMAIN ipfsMap : ipfsMapOut.data[k] = ipfsMap[k]


\* the diagnostics of the units of a batch, in the order of the batch, each
\* with its message, its line and the path of its unit relative to root
RECURSIVE DiagnosticsOf(_, _)
DiagnosticsOf(units, root) ==
  IF units = <<>> THEN <<>>
  ELSE LET unit == Head(units)
           own == DiagsOf(unit)
       IN [n \in 1..Len(own) |->
             [message |-> own[n].message, line |-> own[n].line, file |-> RelUnder(root, unit)]]
            \o DiagnosticsOf(Tail(units), root)

\* C16: the logs a resolved buildApp returns are the diagnostics of the
\* modules in the order of the module batch, followed by those of the
\* widgets in the order of the widget batch, each diagnostic carrying the
\* path of its unit relative to src and its own line.
C16_LogsInBatchOrder ==
  pc = "done" =>
    result.logs = DiagnosticsOf(modules, src) \o DiagnosticsOf(widgets, src)

\* a resolved build that returns diagnostics of a module and of a widget
C16_Witness ==
  /\ pc = "done"
  /\ \E m, n \in 1..Len(result.logs) :
       /\ m < n
       /\ StartsWith(result.logs[m].file, sModule)
       /\ StartsWith(result.logs[n].file, sWidget)


\* C18: once an uploadToIPFS call of the run has been rejected, buildApp is
\* rejected with that error, ipfs.json and its copy in dest are as they were
\* before the run, and nothing is written, transpiled or removed.
C18_FailedUploadChangesNothing ==
  \A n \in FailedCalls({"uploadToIPFS"}) :
    /\ pc = "failed"
    /\ result = Rejected(ErrorOf("uploadToIPFS", trace[n].arg))
    /\ n = Len(trace)
    /\ <<ledgerFile, destLedger>> = ledgerBefore
    /\ \A m \in Calls({"loopThroughFiles"}) : trace[m].arg = IpfsDirOf[src]
    /\ Calls({"writeJson", "copy", "readFile", "transpileJS", "outputFile", "remove",
              "generateData"}) = {}

\* an upload rejected after another upload of the same run had returned
C18_Witness ==
  /\ FailedCalls({"uploadToIPFS"}) # {}
  /\ Uploaded # {}

\* C19: after a rejected call of the module batch or of the widget batch
\* every file of the snapshot is still in the output directory and neither
\* remove nor generateData is called; they are called only when every unit
\* has been transpiled and written.
C19_FailedBatchRemovesNothing ==
  /\ FailedCalls(UnitOps) # {} =>
       /\ Calls({"remove", "generateData"}) = {}
       /\ Range(original_build_files) \subseteq destFiles
  /\ Calls({"remove", "generateData"}) # {} =>
       /\ Range(modules) \cup Range(widgets)
            = {trace[n].arg : n \in {m \in Calls({"transpileJS"}) : trace[m].ok}}
       /\ Cardinality({m \in Calls({"outputFile"}) : trace[m].ok}) = Len(modules) + Len(widgets)

\* a widget batch rejected after the module batch was written, with a file of
\* the snapshot that this build did not write
C19_Witness ==
  /\ pc = "failed"
  /\ \E n \in FailedCalls(UnitOps) : trace[n].op = "transpileJS" /\ trace[n].arg \in Range(widgets)
  /\ Written # {}
  /\ Range(original_build_files) \ Range(new_build_files) # {}


\* C20: when the configuration lists no alias sources, or could not be
\* read, the one alias source buildApp tries to load is aliases.json right
\* below src.
C20_DefaultAliasSource ==
  (pc \notin {"idle", "readConfig", "aliases"} /\ ~(config.defined /\ config.hasAliases)) =>
    /\ Len(AliasReads) = 1
    /\ AliasReads[1].arg = PathJoin(src, sAliasesJson)

====
